---- MODULE Spec2Model ----
(***************************************************************************)
(* A model of coap.py: the CoAP message codec (Message.encode/decode,      *)
(* Options.encode/decode, the three option value classes and the extended  *)
(* delta/length fields) and the blockwise-transfer operations of Message.  *)
(*                                                                         *)
(* Representation of Python values:                                        *)
(*   - a str (Python 2 byte string) is a sequence of integers 0..255;      *)
(*   - an attribute that may be None is <<>> for None and <<v>> for v;     *)
(*   - a call's outcome is a record with err = "" and val = the returned   *)
(*     value, or err = the name of the exception the call raises;          *)
(*   - Options._options (dict: number -> list of option objects) is a      *)
(*     function whose DOMAIN is the set of keys present;                   *)
(*   - an argument that may be a str or a list (the segments of uri_path   *)
(*     and uri_query, the tags of etags) is tagged Str(s) or List(l), and  *)
(*     each segment of a uri_path or uri_query list, which the code        *)
(*     converts with str(), is tagged Str(s) or Num(n).                    *)
(***************************************************************************)
EXTENDS Integers, Sequences, FiniteSets, TLC

VARIABLES
    msg,    \* the message the program holds: the one it builds, splits or accumulates into
    peer,   \* None or <<m>>: the other message of a call (next_block, response, a decoded message)
    ret,    \* the last call: its name, arguments and outcome
    pre,    \* msg as it was when the last call began
    hist    \* <<accumulator as created>> \o the blocks appended to it since, in order

vars == <<msg, peer, ret, pre, hist>>

-----------------------------------------------------------------------------
(* Python values *)

None == <<>>

Some(v) == <<v>>

Ok(v) == [err |-> "", val |-> v]

Raise(e) == [err |-> e, val |-> None]

Min(a, b) == IF a < b THEN a ELSE b

\* Where the code accepts a str as well as a list or tuple, the argument is
\* tagged: Str(s) is the str s, List(l) the list (or tuple) l.
Str(s) == [basestring |-> TRUE, value |-> s]

List(l) == [basestring |-> FALSE, value |-> l]

\* An int where a str may be passed as well
Num(n) == [basestring |-> FALSE, value |-> n]

RECURSIVE Digits(_)
\* The decimal digits of n >= 0, as characters
Digits(n) == IF n < 10 THEN <<48 + n>> ELSE Digits(n \div 10) \o <<48 + (n % 10)>>

\* str(v) for v = Str(s) (s itself) or v = Num(n) (n in decimal)
str(v) ==
    IF v.basestring THEN v.value
    ELSE IF v.value < 0 THEN <<45>> \o Digits(0 - v.value)
    ELSE Digits(v.value)

\* s[start:end] for 0 <= start, 0 <= end: a slice never raises, it clamps.
Slice(s, start, end) == SubSeq(s, start + 1, Min(end, Len(s)))

\* s[start:]
SliceFrom(s, start) == SubSeq(s, start + 1, Len(s))

RECURSIVE bit_length(_)
bit_length(n) == IF n = 0 THEN 0 ELSE 1 + bit_length(n \div 2)

RECURSIVE lstrip0(_)
\* rawdata.lstrip(chr(0))
lstrip0(s) == IF Len(s) > 0 /\ s[1] = 0 THEN lstrip0(Tail(s)) ELSE s

\* struct.pack("!L", v): four big-endian bytes; struct.error outside 0..2^32-1
\* (v >= 2^32 is written v \div 2^16 >= 2^16).
packL(v) ==
    IF v < 0 \/ v \div 65536 >= 65536 THEN Raise("struct.error")
    ELSE Ok(<<(v \div 16777216) % 256, (v \div 65536) % 256, (v \div 256) % 256, v % 256>>)

\* struct.pack("!H", v)
packH(v) ==
    IF v < 0 \/ v >= 65536 THEN Raise("struct.error")
    ELSE Ok(<<(v \div 256) % 256, v % 256>>)

\* struct.pack("!B", v)
packB(v) ==
    IF v < 0 \/ v >= 256 THEN Raise("struct.error")
    ELSE Ok(<<v>>)

RECURSIVE fromBytes(_, _)
\* for byte in rawdata: value = (value * 256) + ord(byte)
fromBytes(value, rawdata) ==
    IF Len(rawdata) = 0 THEN value
    ELSE fromBytes(value * 256 + rawdata[1], Tail(rawdata))

-----------------------------------------------------------------------------
(* Protocol constants *)

CON == 0
NON == 1
ACK == 2
RST == 3

EMPTY == 0
GET == 1
POST == 2
PUT == 3
CHANGED == 68
CONTENT == 69

ETAG == 4
OBSERVE == 6
URI_PATH == 11
CONTENT_FORMAT == 12
URI_QUERY == 15
ACCEPT == 17
BLOCK2 == 23
BLOCK1 == 27

DEFAULT_BLOCK_SIZE_EXP == 2

isRequest(code) == code >= 1 /\ code < 32

isResponse(code) == code >= 64 /\ code < 192

isSuccessful(code) == code >= 64 /\ code < 96

-----------------------------------------------------------------------------
(* Extended delta / length fields *)

readExtendedFieldValue(value, rawdata) ==
    IF value >= 0 /\ value < 13 THEN Ok(<<value, rawdata>>)
    ELSE IF value = 13 THEN
        IF Len(rawdata) = 0 THEN Raise("IndexError")
        ELSE Ok(<<rawdata[1] + 13, SliceFrom(rawdata, 1)>>)
    ELSE IF value = 14 THEN
        IF Len(rawdata) < 2 THEN Raise("struct.error")
        ELSE Ok(<<rawdata[1] * 256 + rawdata[2] + 269, SliceFrom(rawdata, 2)>>)
    ELSE Raise("ValueError")

writeExtendedFieldValue(value) ==
    IF value >= 0 /\ value < 13 THEN Ok(<<value, <<>>>>)
    ELSE IF value >= 13 /\ value < 269 THEN Ok(<<13, packB(value - 13).val>>)
    ELSE IF value >= 269 /\ value < 65804 THEN Ok(<<14, packH(value - 269).val>>)
    ELSE Raise("ValueError")

-----------------------------------------------------------------------------
(* Option value classes.  An option object is [kind, number, value]:       *)
(* kind "String" has a byte string, "Uint" an integer, "Block" a           *)
(* BlockwiseTuple [block_number, more, size_exponent].                     *)

StringOption(number, value) == [kind |-> "String", number |-> number, value |-> value]

UintOption(number, value) == [kind |-> "Uint", number |-> number, value |-> value]

BlockwiseTuple(n, m, e) == [block_number |-> n, more |-> m, size_exponent |-> e]

BlockOption(number, value) == [kind |-> "Block", number |-> number, value |-> value]

\* (self.value[0] << 4) + (self.value[1] * 0x08) + self.value[2]
BlockAsInteger(v) ==
    v.block_number * 16 + (IF v.more THEN 8 ELSE 0) + v.size_exponent

\* option.encode()
OptionEncode(o) ==
    IF o.kind = "String" THEN Ok(o.value)
    ELSE LET packed == packL(IF o.kind = "Uint" THEN o.value ELSE BlockAsInteger(o.value))
         IN  IF packed.err # "" THEN packed ELSE Ok(lstrip0(packed.val))

\* option.length
OptionLength(o) ==
    IF o.kind = "String" THEN Len(o.value)
    ELSE IF o.kind = "Uint" THEN
        (IF o.value > 0 THEN (bit_length(o.value) - 1) \div 8 + 1 ELSE 0)
    ELSE (bit_length(o.value.block_number) + 3) \div 8 + 1

\* option_formats.get(option_number, StringOption)
option_formats(number) ==
    IF number \in {6, 7, 12, 14, 16, 28} THEN "Uint"
    ELSE IF number \in {23, 27} THEN "Block"
    ELSE "String"

\* option_formats.get(n, StringOption)(n) followed by option.decode(rawdata)
OptionDecode(number, rawdata) ==
    LET kind == option_formats(number) IN
    IF kind = "String" THEN StringOption(number, rawdata)
    ELSE IF kind = "Uint" THEN UintOption(number, fromBytes(0, rawdata))
    ELSE LET as_integer == fromBytes(0, rawdata)
         IN  BlockOption(number, BlockwiseTuple(as_integer \div 16,
                                                (as_integer \div 8) % 2 = 1,
                                                as_integer % 8))

-----------------------------------------------------------------------------
(* Options container *)

Options == << >>

addOption(opts, option) ==
    IF option.number \in DOMAIN opts
    THEN [opts EXCEPT ![option.number] = Append(@, option)]
    ELSE opts @@ (option.number :> <<option>>)

deleteOption(opts, number) ==
    [n \in (DOMAIN opts) \ {number} |-> opts[n]]

\* self._options.get(number): None or the list
getOption(opts, number) ==
    IF number \in DOMAIN opts THEN Some(opts[number]) ELSE None

RECURSIVE SortedKeys(_)
\* the keys in ascending order: sorted(..., key=lambda x: x[0].number)
SortedKeys(S) ==
    IF S = {} THEN <<>>
    ELSE LET m == CHOOSE x \in S : \A y \in S : x <= y
         IN  <<m>> \o SortedKeys(S \ {m})

RECURSIVE Chain(_, _)
Chain(opts, keys) ==
    IF Len(keys) = 0 THEN <<>> ELSE opts[keys[1]] \o Chain(opts, Tail(keys))

\* chain.from_iterable(sorted(self._options.values(), key=...))
optionList(opts) == Chain(opts, SortedKeys(DOMAIN opts))

\* One pass of the loop body of Options.encode: the bytes appended to data.
EncodeOneOption(option, current_opt_num) ==
    LET d == writeExtendedFieldValue(option.number - current_opt_num)
        l == writeExtendedFieldValue(OptionLength(option))
        v == OptionEncode(option)
    IN  IF d.err # "" THEN d
        ELSE IF l.err # "" THEN l
        ELSE IF v.err # "" THEN v
        ELSE Ok(<<(d.val[1] % 16) * 16 + (l.val[1] % 16)>> \o d.val[2] \o l.val[2] \o v.val)

RECURSIVE EncodeOptionList(_, _)
EncodeOptionList(option_list, current_opt_num) ==
    IF Len(option_list) = 0 THEN Ok(<<>>)
    ELSE LET one == EncodeOneOption(option_list[1], current_opt_num) IN
         IF one.err # "" THEN one
         ELSE LET rest == EncodeOptionList(Tail(option_list), option_list[1].number) IN
              IF rest.err # "" THEN rest ELSE Ok(one.val \o rest.val)

\* Options.encode(self)
Options_encode(opts) == EncodeOptionList(optionList(opts), 0)

RECURSIVE DecodeLoop(_, _, _)
\* The while loop of Options.decode: err, the returned payload, and the
\* container as the loop leaves it.
DecodeLoop(opts, option_number, rawdata) ==
    IF Len(rawdata) = 0 THEN [err |-> "", val |-> <<>>, opt |-> opts]
    ELSE IF rawdata[1] = 255 THEN [err |-> "", val |-> SliceFrom(rawdata, 1), opt |-> opts]
    ELSE LET dllen == rawdata[1]
             d == readExtendedFieldValue((dllen \div 16) % 16, SliceFrom(rawdata, 1))
         IN  IF d.err # "" THEN [err |-> d.err, val |-> None, opt |-> opts]
             ELSE LET l == readExtendedFieldValue(dllen % 16, d.val[2]) IN
                  IF l.err # "" THEN [err |-> l.err, val |-> None, opt |-> opts]
                  ELSE LET number == option_number + d.val[1]
                           length == l.val[1]
                           option == OptionDecode(number, Slice(l.val[2], 0, length))
                       IN  DecodeLoop(addOption(opts, option), number,
                                      SliceFrom(l.val[2], Min(length, Len(l.val[2]))))

\* Options.decode(self, rawdata)
Options_decode(opts, rawdata) == DecodeLoop(opts, 0, rawdata)

-----------------------------------------------------------------------------
(* Typed accessors of Options *)

RECURSIVE AddSegments(_, _, _)
AddSegments(opts, number, segments) ==
    IF Len(segments) = 0 THEN opts
    ELSE AddSegments(addOption(opts, StringOption(number, str(segments[1]))), number,
                     Tail(segments))

\* segments is Str(s) or List(l), l a sequence of Str(s) and Num(n); the outcome is the exception raised ("" for
\* none) and the container as the call leaves it.
_setUriPath(opts, segments) ==
    IF segments.basestring THEN [err |-> "ValueError", opt |-> opts]
    ELSE [err |-> "",
          opt |-> AddSegments(deleteOption(opts, URI_PATH), URI_PATH, segments.value)]

_setUriQuery(opts, segments) ==
    IF segments.basestring THEN [err |-> "ValueError", opt |-> opts]
    ELSE [err |-> "",
          opt |-> AddSegments(deleteOption(opts, URI_QUERY), URI_QUERY, segments.value)]

\* The values stored at a number, in order: [] when there is none
Values(opts, number) ==
    IF getOption(opts, number) # None
    THEN [i \in 1..Len(opts[number]) |-> opts[number][i].value]
    ELSE <<>>

_getUriPath(opts) == Values(opts, URI_PATH)

_getUriQuery(opts) == Values(opts, URI_QUERY)

_setBlock2(opts, block_tuple) ==
    addOption(deleteOption(opts, BLOCK2), BlockOption(BLOCK2, block_tuple))

_setBlock1(opts, block_tuple) ==
    addOption(deleteOption(opts, BLOCK1), BlockOption(BLOCK1, block_tuple))

_setContentFormat(opts, content_format) ==
    addOption(deleteOption(opts, CONTENT_FORMAT), UintOption(CONTENT_FORMAT, content_format))

\* etag is None (<<>>) or <<value>>
_setETag(opts, etag) ==
    IF etag # None THEN addOption(deleteOption(opts, ETAG), StringOption(ETAG, etag[1]))
    ELSE deleteOption(opts, ETAG)

_setObserve(opts, observe) ==
    IF observe # None THEN addOption(deleteOption(opts, OBSERVE), UintOption(OBSERVE, observe[1]))
    ELSE deleteOption(opts, OBSERVE)

_setAccept(opts, accept) ==
    IF accept # None THEN addOption(deleteOption(opts, ACCEPT), UintOption(ACCEPT, accept[1]))
    ELSE deleteOption(opts, ACCEPT)

RECURSIVE AddTags(_, _)
\* for tag in etags: self.addOption(StringOption(number=ETAG, value=tag))
AddTags(opts, tags) ==
    IF Len(tags) = 0 THEN opts
    ELSE AddTags(addOption(opts, StringOption(ETAG, tags[1])), Tail(tags))

\* etags is Str(s) or List(l): the loop takes the characters of a str, the
\* elements of a list, and stores each as it is.
_setETags(opts, etags) ==
    AddTags(deleteOption(opts, ETAG),
                IF etags.basestring
                THEN [i \in 1..Len(etags.value) |-> <<etags.value[i]>>]
                ELSE etags.value)

_getETags(opts) == Values(opts, ETAG)

\* option.value is None: of the options this model stores, only a
\* UintOption can hold None (after content_format = None).
HoldsNone(option) == option.kind = "Uint" /\ ToString(option.value) = ToString(None)

\* The single-valued getters: None when no option is stored, else the value
\* of the first stored option (None again when that value is None).
FirstValue(opts, number) ==
    IF getOption(opts, number) = None THEN None
    ELSE IF HoldsNone(opts[number][1]) THEN None
    ELSE Some(opts[number][1].value)

_getBlock2(opts) == FirstValue(opts, BLOCK2)

_getBlock1(opts) == FirstValue(opts, BLOCK1)

_getContentFormat(opts) == FirstValue(opts, CONTENT_FORMAT)

_getETag(opts) == FirstValue(opts, ETAG)

_getObserve(opts) == FirstValue(opts, OBSERVE)

_getAccept(opts) == FirstValue(opts, ACCEPT)

-----------------------------------------------------------------------------
(* Message *)

\* Message.__init__(mtype, mid, code, payload, token); mtype, mid and
\* payload are None or <<v>> (the default payload '' is <<<<>>>>).  The
\* outcome is TypeError for a None payload, else the constructed message.
Message(mtype, mid, code, payload, token) ==
    IF payload = None THEN Raise("TypeError")
    ELSE Ok([version |-> 1, mtype |-> mtype, mid |-> mid, code |-> code, token |-> token,
             payload |-> payload[1], opt |-> Options,
             response_type |-> None, remote |-> None, prepath |-> None, postpath |-> None])

\* Message.encode writing the marker whatever the payload (len(payload) >= 0)
Message_encode_alwaysMarker(self) ==
    IF self.mtype = None \/ self.mid = None THEN Raise("TypeError")
    ELSE LET first == (self.version * 64) + ((self.mtype[1] % 4) * 16) + (Len(self.token) % 16)
             c == packB(self.code)
             m == packH(self.mid[1])
             o == Options_encode(self.opt)
         IN  IF c.err # "" THEN c
             ELSE IF m.err # "" THEN m
             ELSE IF o.err # "" THEN o
             ELSE Ok(<<first>> \o c.val \o m.val \o self.token \o o.val
                     \o <<255>> \o self.payload)

\* Message.encode(self)
Message_encode(self) ==
    IF self.mtype = None \/ self.mid = None THEN Raise("TypeError")
    ELSE LET first == (self.version * 64) + ((self.mtype[1] % 4) * 16) + (Len(self.token) % 16)
             c == packB(self.code)
             m == packH(self.mid[1])
             o == Options_encode(self.opt)
         IN  IF c.err # "" THEN c
             ELSE IF m.err # "" THEN m
             ELSE IF o.err # "" THEN o
             ELSE Ok(<<first>> \o c.val \o m.val \o self.token \o o.val
                     \o (IF Len(self.payload) > 0 THEN <<255>> \o self.payload ELSE <<>>))

\* Message.decode(cls, rawdata, remote)
Message_decode(rawdata, remote) ==
    IF Len(Slice(rawdata, 0, 4)) # 4 THEN Raise("struct.error")
    ELSE LET vttkl == rawdata[1]
             code == rawdata[2]
             mid == rawdata[3] * 256 + rawdata[4]
             version == (vttkl \div 64) % 4
             mtype == (vttkl \div 16) % 4
             token_length == vttkl % 16
             m == Message(Some(mtype), Some(mid), code, Some(<<>>), <<>>).val
             o == Options_decode(m.opt, SliceFrom(rawdata, Min(4 + token_length, Len(rawdata))))
         IN  IF version # 1 THEN Raise("ValueError")
             ELSE IF o.err # "" THEN Raise(o.err)
             ELSE Ok([m EXCEPT !.token = Slice(rawdata, 4, 4 + token_length),
                               !.payload = o.val,
                               !.opt = o.opt,
                               !.remote = remote])

-----------------------------------------------------------------------------
(* Blockwise transfer *)

\* extractBlock with the block size taken as 2^(size_exp+2)
extractBlock_size4(self, number, size_exp) ==
    LET size == 2 ^ (size_exp + 2)
        start == number * size
    IN  IF start < Len(self.payload) THEN
            LET end == IF start + size < Len(self.payload) THEN start + size
                       ELSE Len(self.payload)
                more == end < Len(self.payload)
                block == [self EXCEPT !.payload = Slice(self.payload, start, end),
                                      !.mid = None]
            IN  IF isRequest(block.code)
                THEN Some([block EXCEPT !.opt = _setBlock1(@, BlockwiseTuple(number, more, size_exp))])
                ELSE Some([block EXCEPT !.opt = _setBlock2(@, BlockwiseTuple(number, more, size_exp))])
        ELSE None

\* extractBlock with more computed against the block's own payload (the
\* payload is sliced before more is read) and the message ID kept
extractBlock_moreOfBlock(self, number, size_exp) ==
    LET size == 2 ^ (size_exp + 4)
        start == number * size
    IN  IF start < Len(self.payload) THEN
            LET end == IF start + size < Len(self.payload) THEN start + size
                       ELSE Len(self.payload)
                block == [self EXCEPT !.payload = Slice(self.payload, start, end)]
                more == end < Len(block.payload)
            IN  IF isRequest(block.code)
                THEN Some([block EXCEPT !.opt = _setBlock1(@, BlockwiseTuple(number, more, size_exp))])
                ELSE Some([block EXCEPT !.opt = _setBlock2(@, BlockwiseTuple(number, more, size_exp))])
        ELSE None

\* Message.extractBlock(self, number, size_exp): None or <<block>>
extractBlock(self, number, size_exp) ==
    LET size == 2 ^ (size_exp + 4)
        start == number * size
    IN  IF start < Len(self.payload) THEN
            LET end == IF start + size < Len(self.payload) THEN start + size
                       ELSE Len(self.payload)
                more == end < Len(self.payload)
                block == [self EXCEPT !.payload = Slice(self.payload, start, end),
                                      !.mid = None]
            IN  IF isRequest(block.code)
                THEN Some([block EXCEPT !.opt = _setBlock1(@, BlockwiseTuple(number, more, size_exp))])
                ELSE Some([block EXCEPT !.opt = _setBlock2(@, BlockwiseTuple(number, more, size_exp))])
        ELSE None

\* The name iot is bound nowhere in coap.py, so evaluating iot.error.<X>
\* in a raise statement raises NameError before any exception object exists.
iot_error(name) == "NameError"

\* appendRequestBlock without the assignment self.opt.block1 = block1
appendRequestBlock_keepsBlock1(self, next_block) ==
    IF isRequest(self.code) THEN
        LET block1 == _getBlock1(next_block.opt) IN
        IF block1 = None THEN [err |-> "AttributeError", self |-> self]
        ELSE IF block1[1].block_number * (2 ^ (block1[1].size_exponent + 4)) = Len(self.payload)
        THEN [err |-> "",
              self |-> [self EXCEPT !.payload = @ \o next_block.payload,
                                    !.token = next_block.token,
                                    !.mid = next_block.mid,
                                    !.response_type = None]]
        ELSE [err |-> iot_error("NotImplemented"), self |-> self]
    ELSE [err |-> "ValueError", self |-> self]

\* appendRequestBlock without the comparison of the block's offset with
\* len(self.payload)
appendRequestBlock_noOffsetCheck(self, next_block) ==
    IF isRequest(self.code) THEN
        LET block1 == _getBlock1(next_block.opt) IN
        IF block1 = None THEN [err |-> "AttributeError", self |-> self]
        ELSE [err |-> "",
              self |-> [self EXCEPT !.payload = @ \o next_block.payload,
                                    !.opt = _setBlock1(@, block1[1]),
                                    !.token = next_block.token,
                                    !.mid = next_block.mid,
                                    !.response_type = None]]
    ELSE [err |-> "ValueError", self |-> self]

\* Message.appendRequestBlock(self, next_block): err and self as the call leaves it
appendRequestBlock(self, next_block) ==
    IF isRequest(self.code) THEN
        LET block1 == _getBlock1(next_block.opt) IN
        IF block1 = None THEN [err |-> "AttributeError", self |-> self]
        ELSE IF block1[1].block_number * (2 ^ (block1[1].size_exponent + 4)) = Len(self.payload)
        THEN [err |-> "",
              self |-> [self EXCEPT !.payload = @ \o next_block.payload,
                                    !.opt = _setBlock1(@, block1[1]),
                                    !.token = next_block.token,
                                    !.mid = next_block.mid,
                                    !.response_type = None]]
        ELSE [err |-> iot_error("NotImplemented"), self |-> self]
    ELSE [err |-> "ValueError", self |-> self]

\* appendResponseBlock with self.payload += next_block.payload moved above
\* the ETag comparison
appendResponseBlock_appendsBeforeETag(self, next_block) ==
    IF isResponse(self.code) THEN
        LET block2 == _getBlock2(next_block.opt) IN
        IF block2 = None THEN [err |-> "AttributeError", self |-> self]
        ELSE IF block2[1].block_number * (2 ^ (block2[1].size_exponent + 4)) # Len(self.payload)
        THEN [err |-> iot_error("NotImplemented"), self |-> self]
        ELSE IF _getETag(next_block.opt) # _getETag(self.opt)
        THEN [err |-> iot_error("ResourceChanged"),
              self |-> [self EXCEPT !.payload = @ \o next_block.payload]]
        ELSE [err |-> "",
              self |-> [self EXCEPT !.payload = @ \o next_block.payload,
                                    !.opt = _setBlock2(@, block2[1]),
                                    !.token = next_block.token,
                                    !.mid = next_block.mid]]
    ELSE [err |-> "ValueError", self |-> self]

\* Message.appendResponseBlock(self, next_block)
appendResponseBlock(self, next_block) ==
    IF isResponse(self.code) THEN
        LET block2 == _getBlock2(next_block.opt) IN
        IF block2 = None THEN [err |-> "AttributeError", self |-> self]
        ELSE IF block2[1].block_number * (2 ^ (block2[1].size_exponent + 4)) # Len(self.payload)
        THEN [err |-> iot_error("NotImplemented"), self |-> self]
        ELSE IF _getETag(next_block.opt) # _getETag(self.opt)
        THEN [err |-> iot_error("ResourceChanged"), self |-> self]
        ELSE [err |-> "",
              self |-> [self EXCEPT !.payload = @ \o next_block.payload,
                                    !.opt = _setBlock2(@, block2[1]),
                                    !.token = next_block.token,
                                    !.mid = next_block.mid]]
    ELSE [err |-> "ValueError", self |-> self]

\* generateNextBlock2Request without request.opt.deleteOption(OBSERVE)
generateNextBlock2Request_keepsObserve(self, response) ==
    LET request == [self EXCEPT !.payload = <<>>, !.mid = None]
        block2 == _getBlock2(response.opt)
    IN  IF block2 = None THEN Raise("AttributeError")
        ELSE LET new ==
                   IF block2[1].block_number = 0
                      /\ block2[1].size_exponent > DEFAULT_BLOCK_SIZE_EXP
                   THEN BlockwiseTuple(2 ^ (block2[1].size_exponent - DEFAULT_BLOCK_SIZE_EXP),
                                       FALSE, DEFAULT_BLOCK_SIZE_EXP)
                   ELSE BlockwiseTuple(block2[1].block_number + 1, FALSE,
                                       block2[1].size_exponent)
             IN  Ok([request EXCEPT !.opt = deleteOption(_setBlock2(@, new), BLOCK1)])

\* generateNextBlock2Request asking for block_number + 1 also when it
\* negotiates the size down
generateNextBlock2Request_nextNumber(self, response) ==
    LET request == [self EXCEPT !.payload = <<>>, !.mid = None]
        block2 == _getBlock2(response.opt)
    IN  IF block2 = None THEN Raise("AttributeError")
        ELSE LET new ==
                   IF block2[1].block_number = 0
                      /\ block2[1].size_exponent > DEFAULT_BLOCK_SIZE_EXP
                   THEN BlockwiseTuple(block2[1].block_number + 1,
                                       FALSE, DEFAULT_BLOCK_SIZE_EXP)
                   ELSE BlockwiseTuple(block2[1].block_number + 1, FALSE,
                                       block2[1].size_exponent)
             IN  Ok([request EXCEPT !.opt =
                        deleteOption(deleteOption(_setBlock2(@, new), BLOCK1), OBSERVE)])

\* Message.generateNextBlock2Request(self, response)
generateNextBlock2Request(self, response) ==
    LET request == [self EXCEPT !.payload = <<>>, !.mid = None]
        block2 == _getBlock2(response.opt)
    IN  IF block2 = None THEN Raise("AttributeError")
        ELSE LET new ==
                   IF block2[1].block_number = 0
                      /\ block2[1].size_exponent > DEFAULT_BLOCK_SIZE_EXP
                   THEN BlockwiseTuple(2 ^ (block2[1].size_exponent - DEFAULT_BLOCK_SIZE_EXP),
                                       FALSE, DEFAULT_BLOCK_SIZE_EXP)
                   ELSE BlockwiseTuple(block2[1].block_number + 1, FALSE,
                                       block2[1].size_exponent)
             IN  Ok([request EXCEPT !.opt =
                        deleteOption(deleteOption(_setBlock2(@, new), BLOCK1), OBSERVE)])

\* generateNextBlock1Response echoing the received size exponent when it
\* should negotiate down
generateNextBlock1Response_noNegotiation(self) ==
    LET response == [Message(None, None, CHANGED, Some(<<>>), self.token).val
                        EXCEPT !.remote = self.remote]
        block1 == _getBlock1(self.opt)
    IN  IF block1 = None THEN Raise("AttributeError")
        ELSE Ok([response EXCEPT !.opt =
                    _setBlock1(@, BlockwiseTuple(block1[1].block_number, TRUE,
                                                 block1[1].size_exponent))])

\* Message.generateNextBlock1Response(self)
generateNextBlock1Response(self) ==
    LET response == [Message(None, None, CHANGED, Some(<<>>), self.token).val
                        EXCEPT !.remote = self.remote]
        block1 == _getBlock1(self.opt)
    IN  IF block1 = None THEN Raise("AttributeError")
        ELSE IF block1[1].block_number = 0
                /\ block1[1].size_exponent > DEFAULT_BLOCK_SIZE_EXP
        THEN Ok([response EXCEPT !.opt =
                    _setBlock1(@, BlockwiseTuple(0, TRUE, DEFAULT_BLOCK_SIZE_EXP))])
        ELSE Ok([response EXCEPT !.opt =
                    _setBlock1(@, BlockwiseTuple(block1[1].block_number, TRUE,
                                                 block1[1].size_exponent))])

-----------------------------------------------------------------------------
(* Inputs *)

\* The largest block number an incoming block carries.
MaxBlockNumber == 2

\* The most blocks one accumulator takes.
MaxAppends == 3

\* A payload of len bytes: first, first + 1, ... (mod 256)
Bytes(len, first) == [i \in 1..len |-> (first + i - 1) % 256]

ETags == {None, Some(<<97>>), Some(<<98>>)}

BlockTuples(numbers, exps) ==
    {BlockwiseTuple(n, m, e) : n \in numbers, m \in BOOLEAN, e \in exps}

\* A message as a transport hands it over: constructed, with its block
\* descriptor in Block1 (a request) or Block2 (otherwise) and its ETag set
\* through the typed accessors.  block is None or <<BlockwiseTuple>>.
Build(mid, token, code, payload, block, etag) ==
    LET m == Message(Some(CON), Some(mid), code, Some(payload), token).val
        o1 == IF block = None THEN m.opt
              ELSE IF isRequest(code) THEN _setBlock1(m.opt, block[1])
              ELSE _setBlock2(m.opt, block[1])
    IN  [m EXCEPT !.opt = _setETag(o1, etag)]

\* ret: the call's name, its integer arguments, the exception it raised
\* ("" for none) and what it returned.
Call(op, args, err, val) == [op |-> op, args |-> args, err |-> err, val |-> val]

NoCall == Call("none", <<>>, "", None)

-----------------------------------------------------------------------------
(* Reassembly: an endpoint accumulates incoming blocks into msg. *)

Init ==
    /\ msg = Message(None, None, EMPTY, Some(<<>>), <<>>).val
    /\ peer = None
    /\ ret = NoCall
    /\ pre = msg
    /\ hist = <<msg>>

\* A new exchange: the accumulator is an empty message or a first block of
\* 16 bytes, and the transport has put a response-type hint on it.
NewAccumulator ==
    \E code \in {PUT, CONTENT}, n \in {0, 16}, etag \in {None, Some(<<97>>)} :
        /\ hist = <<Message(None, None, EMPTY, Some(<<>>), <<>>).val>>
        /\ msg' = [Build(1, <<1>>, code, Bytes(n, 0),
                         IF n = 0 THEN None ELSE Some(BlockwiseTuple(0, TRUE, 0)), etag)
                     EXCEPT !.response_type = Some(ACK)]
        /\ peer' = None
        /\ ret' = NoCall
        /\ pre' = msg'
        /\ hist' = <<msg'>>

\* A block arrives.
ReceiveBlock ==
    \E code \in {PUT, CONTENT}, n \in {8, 16}, etag \in ETags,
       block \in {None} \cup {Some(b) : b \in BlockTuples(0..MaxBlockNumber, {0, 2})} :
        /\ hist # <<Message(None, None, EMPTY, Some(<<>>), <<>>).val>>
        /\ peer = None
        /\ isRequest(code) => etag = None
        /\ peer' = Some(Build(2, <<2>>, code, Bytes(n, 100), block, etag))
        /\ ret' = NoCall
        /\ pre' = msg
        /\ UNCHANGED <<msg, hist>>

AppendRequestBlock ==
    /\ peer # None
    /\ ret.op = "none"
    /\ Len(hist) <= MaxAppends
    /\ LET r == appendRequestBlock(msg, peer[1]) IN
        /\ msg' = r.self
        /\ ret' = Call("appendRequestBlock", <<>>, r.err, None)
        /\ hist' = IF r.err = "" THEN Append(hist, peer[1]) ELSE hist
    /\ pre' = msg
    /\ UNCHANGED peer

AppendResponseBlock ==
    /\ peer # None
    /\ ret.op = "none"
    /\ Len(hist) <= MaxAppends
    /\ LET r == appendResponseBlock(msg, peer[1]) IN
        /\ msg' = r.self
        /\ ret' = Call("appendResponseBlock", <<>>, r.err, None)
        /\ hist' = IF r.err = "" THEN Append(hist, peer[1]) ELSE hist
    /\ pre' = msg
    /\ UNCHANGED peer

\* The caller is done with the block it offered, appended or not.
ReleaseBlock ==
    /\ peer # None
    /\ ret.op # "none"
    /\ peer' = None
    /\ ret' = NoCall
    /\ pre' = msg
    /\ UNCHANGED <<msg, hist>>

Next ==
    \/ NewAccumulator
    \/ ReceiveBlock
    \/ AppendRequestBlock
    \/ AppendResponseBlock
    \/ ReleaseBlock

Spec == Init /\ [][Next]_vars

-----------------------------------------------------------------------------
(* Claims about reassembly (checked under Spec) *)

\* The exception names that are the block-sequence error and the
\* resource-changed error: those the raise statements name.
BlockSequenceErrors == {"NotImplemented", "BlockSequenceError"}

ResourceChangedErrors == {"ResourceChanged"}

\* The byte offset a block descriptor stands for.
Offset(b) == b.block_number * (2 ^ (b.size_exponent + 4))

\* The last call was an append on an accumulator of the right kind, and the
\* block carried the descriptor the call reads.
AppendedRequest ==
    /\ ret.op = "appendRequestBlock"
    /\ isRequest(pre.code)
    /\ _getBlock1(peer[1].opt) # None

AppendedResponse ==
    /\ ret.op = "appendResponseBlock"
    /\ isResponse(pre.code)
    /\ _getBlock2(peer[1].opt) # None

\* C2: in both append operations, a block whose offset
\* block_number * 2^(size_exponent+4) differs from the length of the
\* accumulated payload makes the call fail with the block-sequence error,
\* and nothing is appended.
C2_OutOfOrderIsBlockSequenceError ==
    /\ (AppendedRequest /\ Offset(_getBlock1(peer[1].opt)[1]) # Len(pre.payload))
          => (ret.err \in BlockSequenceErrors /\ msg = pre)
    /\ (AppendedResponse /\ Offset(_getBlock2(peer[1].opt)[1]) # Len(pre.payload))
          => (ret.err \in BlockSequenceErrors /\ msg = pre)

\* C3: appendResponseBlock on a response accumulator fails with
\* ResourceChanged whenever the block's ETag differs from the accumulator's
\* (one absent and the other present included), also when the offset is
\* contiguous; with equal ETags and a contiguous offset it succeeds.
C3_ETagMismatchIsResourceChanged ==
    AppendedResponse =>
        /\ _getETag(peer[1].opt) # _getETag(pre.opt)
              => ret.err \in ResourceChangedErrors
        /\ (/\ _getETag(peer[1].opt) = _getETag(pre.opt)
            /\ Offset(_getBlock2(peer[1].opt)[1]) = Len(pre.payload))
              => ret.err = ""

\* The request blocks offered to appendRequestBlock in this exchange: those
\* appended, and the one the last call refused.
Offered ==
    IF ret.op = "appendRequestBlock" /\ ret.err # ""
    THEN Append(Tail(hist), peer[1]) ELSE Tail(hist)

\* Block1 descriptor and payload length of each block of a sequence
Shapes(blocks) ==
    [i \in 1..Len(blocks) |-> <<_getBlock1(blocks[i].opt), Len(blocks[i].payload)>>]

\* (0,true,e) + 16 bytes, (1,true,e) + 16 bytes, (2,false,e) + 8 bytes
ThreeBlocks(e) ==
    << <<Some(BlockwiseTuple(0, TRUE, e)), 16>>,
       <<Some(BlockwiseTuple(1, TRUE, e)), 16>>,
       <<Some(BlockwiseTuple(2, FALSE, e)), 8>> >>

\* The exchange is a request accumulator that started empty and was offered
\* a non-empty prefix of ThreeBlocks(e), in order.
OfferedThree(e) ==
    /\ isRequest(hist[1].code)
    /\ Len(hist[1].payload) = 0
    /\ Offered # <<>>
    /\ Len(Offered) <= 3
    /\ Shapes(Offered) = SubSeq(ThreeBlocks(e), 1, Len(Offered))

HappyPath(e) ==
    OfferedThree(e) =>
        /\ ret.op = "appendRequestBlock" => ret.err = ""
        /\ Len(Offered) = 3 =>
             /\ Len(msg.payload) = 40
             /\ msg.payload = hist[2].payload \o hist[3].payload \o hist[4].payload
             /\ _getBlock1(msg.opt) = Some(BlockwiseTuple(2, FALSE, e))

\* C4 as stated: the three blocks with size exponent 2 and 16, 16 and 8
\* payload bytes, appended in order, all succeed and give a 40-byte payload
\* with final block1 = (2,false,2).
C4_HappyPathExponent2 == HappyPath(2)

\* C4, amended: exponent 2 means 64-byte blocks, so 16-byte blocks are
\* contiguous only with size exponent 0: (0,true,0) + 16 bytes, (1,true,0) +
\* 16 bytes, (2,false,0) + 8 bytes, appended in order to an empty request
\* accumulator, all succeed and give the 40-byte concatenation with final
\* block1 = (2,false,0).
C4_HappyPathExponent0 == HappyPath(0)

C4_Witness ==
    /\ OfferedThree(0)
    /\ Len(Offered) = 3
    /\ ret.op = "appendRequestBlock"
    /\ ret.err = ""

-----------------------------------------------------------------------------
(* Splitting and next-block generation: the inputs are drawn at the start *)
(* and one of the three functions is applied to them.                      *)

\* The largest block number asked of extractBlock.
MaxExtractNumber == 7

\* The largest size exponent asked of extractBlock.
MaxExtractExp == 2

\* A message to split or to continue: bare, or carrying options of every
\* kind, a remote and a response-type hint.
Source(code, n, rich) ==
    LET m == Build(7, <<9, 9>>, code, Bytes(n, 0), None, None)
        o1 == _setUriPath(m.opt, List(<<Str(<<97>>), Str(<<98, 99>>)>>)).opt
        o2 == _setObserve(o1, Some(0))
        o3 == _setBlock1(o2, BlockwiseTuple(1, TRUE, 0))
        o4 == _setBlock2(o3, BlockwiseTuple(3, FALSE, 1))
        o5 == _setETag(o4, Some(<<97>>))
    IN  IF rich THEN [m EXCEPT !.opt = o5, !.remote = Some(1), !.response_type = Some(ACK)]
        ELSE m

Sources ==
    {Source(code, n, rich) : code \in {EMPTY, PUT, CONTENT}, n \in {0, 16, 40, 100},
                             rich \in BOOLEAN}

\* The message received from the other endpoint: a request block (descriptor
\* in Block1) or a response (descriptor in Block2), or one without descriptor.
Received ==
    {[Build(2, <<2>>, code, Bytes(8, 100), block, None) EXCEPT !.remote = Some(5)] :
        code \in {PUT, CONTENT},
        block \in {None} \cup {Some(b) : b \in BlockTuples({0, 1, 5}, 0..7)}}

InitBlock ==
    /\ msg \in Sources
    /\ peer \in {None} \cup {Some(m) : m \in Received}
    /\ ret = NoCall
    /\ pre = msg
    /\ hist = <<msg>>

ExtractBlock ==
    \E number \in 0..MaxExtractNumber, size_exp \in 0..MaxExtractExp :
        /\ peer = None
        /\ ret.op = "none"
        /\ ret' = Call("extractBlock", <<number, size_exp>>, "",
                       extractBlock(msg, number, size_exp))
        /\ pre' = msg
        /\ UNCHANGED <<msg, peer, hist>>

\* msg is the original request, peer the response just received.
GenerateNextBlock2Request ==
    /\ peer # None
    /\ ret.op = "none"
    /\ LET r == generateNextBlock2Request(msg, peer[1]) IN
        ret' = Call("generateNextBlock2Request", <<>>, r.err,
                    IF r.err = "" THEN Some(r.val) ELSE None)
    /\ pre' = msg
    /\ UNCHANGED <<msg, peer, hist>>

\* peer is the request block just received.
GenerateNextBlock1Response ==
    /\ peer # None
    /\ ret.op = "none"
    /\ LET r == generateNextBlock1Response(peer[1]) IN
        ret' = Call("generateNextBlock1Response", <<>>, r.err,
                    IF r.err = "" THEN Some(r.val) ELSE None)
    /\ pre' = msg
    /\ UNCHANGED <<msg, peer, hist>>

NextBlock ==
    \/ ExtractBlock
    \/ GenerateNextBlock2Request
    \/ GenerateNextBlock1Response

BlockSpec == InitBlock /\ [][NextBlock]_vars

-----------------------------------------------------------------------------
(* Claims about splitting and next-block generation (checked under         *)
(* BlockSpec)                                                              *)

\* The descriptor extractBlock wrote on a block of the source pre: Block1 of
\* a request, Block2 otherwise.
WrittenBlock(b) == IF isRequest(pre.code) THEN _getBlock1(b.opt) ELSE _getBlock2(b.opt)

\* extractBlock(number, 2) on the 100-byte payload returned a block of len
\* bytes with the given more flag.
Yields100(len, more) ==
    /\ ret.val # None
    /\ Len(ret.val[1].payload) = len
    /\ WrittenBlock(ret.val[1]) = Some(BlockwiseTuple(ret.args[1], more, 2))

Extracted100 ==
    /\ ret.op = "extractBlock"
    /\ Len(pre.payload) = 100
    /\ ret.args[2] = 2

\* C5 as stated: with size_exponent = 2 the 100-byte payload splits into
\* blocks 0..4 of 16 bytes with more = true and block 5 of 4 bytes with
\* more = false; block 6 is none.
C5_BlockSize16 ==
    Extracted100 =>
        /\ ret.args[1] \in 0..4 => Yields100(16, TRUE)
        /\ ret.args[1] = 5 => Yields100(4, FALSE)
        /\ ret.args[1] = 6 => ret.val = None

\* C5, amended: size_exponent = 2 is a block size of 2^(2+4) = 64, so the
\* 100-byte payload splits into block 0 of 64 bytes with more = true and
\* block 1 of 36 bytes with more = false; block 2 and every later one is none.
C5_BlockSize64 ==
    Extracted100 =>
        /\ ret.args[1] = 0 => Yields100(64, TRUE)
        /\ ret.args[1] = 1 => Yields100(36, FALSE)
        /\ ret.args[1] >= 2 => ret.val = None

C5_Witness ==
    /\ Extracted100
    /\ ret.args[1] = 1
    /\ ret.val # None

\* Every field of the two messages but payload, mid and opt is equal.
SameOtherFields(a, b) ==
    /\ a.version = b.version
    /\ a.mtype = b.mtype
    /\ a.code = b.code
    /\ a.token = b.token
    /\ a.response_type = b.response_type
    /\ a.remote = b.remote
    /\ a.prepath = b.prepath
    /\ a.postpath = b.postpath

\* The two containers hold the same options at every number outside skip.
SameOptionsBut(a, b, skip) ==
    /\ (DOMAIN a) \ skip = (DOMAIN b) \ skip
    /\ \A n \in (DOMAIN a) \ skip : a[n] = b[n]

\* C6: extractBlock(number, size_exp), with size = 2^(size_exp+4) and
\* start = number * size, returns none when start >= len(payload);
\* otherwise a copy whose payload is payload[start:min(start+size, len)],
\* whose message ID is cleared and whose descriptor (number, end < len,
\* size_exp) is the one value of Block1 (source a request) or of Block2
\* (source a response); every other field and option equals the source's,
\* and the source is left as it was.
C6_ExtractBlock ==
    ret.op = "extractBlock" =>
        LET number == ret.args[1]
            size_exp == ret.args[2]
            size == 2 ^ (size_exp + 4)
            start == number * size
            len == Len(pre.payload)
            end == Min(start + size, len)
            descr == BlockOption(IF isRequest(pre.code) THEN BLOCK1 ELSE BLOCK2,
                                 BlockwiseTuple(number, end < len, size_exp))
        IN  /\ msg = pre
            /\ start >= len => ret.val = None
            /\ start < len =>
                 /\ ret.val # None
                 /\ Len(ret.val[1].payload) = end - start
                 /\ \A i \in 1..(end - start) : ret.val[1].payload[i] = pre.payload[start + i]
                 /\ ret.val[1].mid = None
                 /\ SameOtherFields(ret.val[1], pre)
                 /\ (isRequest(pre.code) \/ isResponse(pre.code)) =>
                      /\ descr.number \in DOMAIN ret.val[1].opt
                      /\ ret.val[1].opt[descr.number] = <<descr>>
                      /\ SameOptionsBut(ret.val[1].opt, pre.opt, {descr.number})

C6_Witness ==
    /\ ret.op = "extractBlock"
    /\ isResponse(pre.code)
    /\ BLOCK1 \in DOMAIN pre.opt
    /\ pre.mid # None
    /\ ret.args = <<2, 0>>
    /\ ret.val # None
    /\ Len(ret.val[1].payload) = 8

\* The Block2 the next request must carry after a response with Block2 b.
NextBlock2(b) ==
    IF b.block_number = 0 /\ b.size_exponent > 2
    THEN BlockwiseTuple(2 ^ (b.size_exponent - 2), FALSE, 2)
    ELSE BlockwiseTuple(b.block_number + 1, FALSE, b.size_exponent)

\* C7: generateNextBlock2Request returns a clone of the original request
\* with empty payload, cleared message ID, no Block1 and no Observe option,
\* and Block2 = (2^(e-2), false, 2) after a response Block2 (0, _, e) with
\* e > 2, (n+1, false, e) after any other (n, _, e); the more flag is false.
C7_NextBlock2Request ==
    (ret.op = "generateNextBlock2Request" /\ _getBlock2(peer[1].opt) # None) =>
        /\ ret.err = ""
        /\ ret.val[1].payload = <<>>
        /\ ret.val[1].mid = None
        /\ BLOCK1 \notin DOMAIN ret.val[1].opt
        /\ OBSERVE \notin DOMAIN ret.val[1].opt
        /\ BLOCK2 \in DOMAIN ret.val[1].opt
        /\ ret.val[1].opt[BLOCK2] = <<BlockOption(BLOCK2, NextBlock2(_getBlock2(peer[1].opt)[1]))>>
        /\ ret.val[1].opt[BLOCK2][1].value.more = FALSE
        /\ SameOtherFields(ret.val[1], pre)
        /\ SameOptionsBut(ret.val[1].opt, pre.opt, {BLOCK1, BLOCK2, OBSERVE})
        /\ msg = pre

C7_Witness ==
    /\ ret.op = "generateNextBlock2Request"
    /\ _getBlock2(peer[1].opt) = Some(BlockwiseTuple(0, TRUE, 6))
    /\ isRequest(pre.code)
    /\ OBSERVE \in DOMAIN pre.opt
    /\ BLOCK1 \in DOMAIN pre.opt
    /\ Len(pre.payload) > 0
    /\ _getBlock2(ret.val[1].opt) = Some(BlockwiseTuple(16, FALSE, 2))

\* The Block1 that acknowledges a request block with Block1 b.
AckBlock1(b) ==
    IF b.block_number = 0 /\ b.size_exponent > 2
    THEN BlockwiseTuple(0, TRUE, 2)
    ELSE BlockwiseTuple(b.block_number, TRUE, b.size_exponent)

\* What C8 says of the response, but for its type.
AckOfReceived(r) ==
    /\ r.code = 68
    /\ r.token = peer[1].token
    /\ r.remote = peer[1].remote
    /\ _getBlock1(r.opt) = Some(AckBlock1(_getBlock1(peer[1].opt)[1]))

GeneratedBlock1Response ==
    /\ ret.op = "generateNextBlock1Response"
    /\ _getBlock1(peer[1].opt) # None

\* C8 as stated: generateNextBlock1Response returns a fresh message of type
\* Acknowledgement with code Changed (68), the token and remote of the
\* received block, and Block1 = (0, true, 2) after a received (0, _, e) with
\* e > 2, (n, true, e) after any other (n, _, e).
C8_ResponseIsAcknowledgement ==
    GeneratedBlock1Response =>
        /\ ret.err = ""
        /\ ret.val[1].mtype = Some(ACK)
        /\ AckOfReceived(ret.val[1])

\* C8, amended: the fresh message has no type yet (mtype is None, as is its
\* message ID; the sender sets both before encode); its code, token, remote
\* and Block1 are as stated.
C8_ResponseTypeUnset ==
    GeneratedBlock1Response =>
        /\ ret.err = ""
        /\ ret.val[1].mtype = None
        /\ ret.val[1].mid = None
        /\ AckOfReceived(ret.val[1])

C8_Witness ==
    /\ GeneratedBlock1Response
    /\ _getBlock1(peer[1].opt) = Some(BlockwiseTuple(0, FALSE, 6))
    /\ ret.err = ""
    /\ _getBlock1(ret.val[1].opt) = Some(BlockwiseTuple(0, TRUE, 2))

-----------------------------------------------------------------------------
(* The codec: a message is built, encoded and decoded again, or a datagram *)
(* is received and decoded.                                                *)

\* The most bytes that follow the header in a received datagram.
MaxOptionBytes == 4

\* A message built as the example clients build theirs: the constructor,
\* then the typed accessors (absent options are left unset).
Built(mid, code, token, payload, path, etag, accept, block1, block2) ==
    LET m == Message(Some(CON), Some(mid), code, Some(payload), token).val
        o1 == IF path = <<>> THEN m.opt
              ELSE _setUriPath(m.opt, List([i \in 1..Len(path) |-> Str(path[i])])).opt
        o2 == _setETag(o1, etag)
        o3 == _setAccept(o2, accept)
        o4 == IF block1 = None THEN o3 ELSE _setBlock1(o3, block1[1])
        o5 == IF block2 = None THEN o4 ELSE _setBlock2(o4, block2[1])
    IN  [m EXCEPT !.opt = o5]

CodecBlocks ==
    {None, Some(BlockwiseTuple(0, FALSE, 0)), Some(BlockwiseTuple(1, TRUE, 2)),
     Some(BlockwiseTuple(16, FALSE, 2))}

CodecMessages ==
    {Built(mid, code, token, payload, path, etag, accept, block1, block2) :
        mid \in {55, 65535}, code \in {POST, CONTENT},
        token \in {<<>>, <<1, 255>>},
        payload \in {<<>>, <<51, 55>>, <<255, 1>>},
        path \in {<<>>, <<<<49, 97>>, <<>>>>},
        etag \in {None, Some(<<97>>)},
        accept \in {None, Some(50)},
        block1 \in CodecBlocks, block2 \in {None, Some(BlockwiseTuple(0, FALSE, 0))}}

\* An endpoint that has built nothing and only listens
Listening == Message(None, None, EMPTY, Some(<<>>), <<>>).val

RECURSIVE SeqsUpTo(_, _)
\* every sequence over S of length at most n
SeqsUpTo(S, n) ==
    IF n = 0 THEN {<<>>}
    ELSE LET shorter == SeqsUpTo(S, n - 1)
         IN  shorter \cup {Append(q, x) : q \in shorter, x \in S}

\* Received datagrams: a header of version 1 or 2 (CON, no token, GET,
\* message ID 0x37) and then any bytes among: option headers (delta 0
\* length 1, delta 11 length 2, delta 13+ext length 0, delta 0 length 15),
\* the letter a, and 0xFF.
Datagrams ==
    {h \o q : h \in {<<64, 1, 0, 55>>, <<128, 1, 0, 55>>},
              q \in SeqsUpTo({1, 178, 208, 15, 97, 255}, MaxOptionBytes)}

InitCodec ==
    /\ msg \in CodecMessages \cup {Listening}
    /\ peer = None
    /\ ret = NoCall
    /\ pre = msg
    /\ hist = <<msg>>

\* rawdata = msg.encode()
Encode ==
    /\ ret.op = "none"
    /\ LET r == Message_encode(msg) IN
        ret' = Call("encode", <<>>, r.err, r.val)
    /\ pre' = msg
    /\ UNCHANGED <<msg, peer, hist>>

\* The other endpoint decodes what was encoded: Message.decode(rawdata)
Decode ==
    /\ ret.op = "encode"
    /\ ret.err = ""
    /\ LET r == Message_decode(ret.val, None) IN
        /\ ret' = Call("decode", ret.val, r.err, None)
        /\ peer' = IF r.err = "" THEN Some(r.val) ELSE None
    /\ UNCHANGED <<msg, pre, hist>>

\* data, addr = sock.recvfrom(2048); recv_msg = coap.Message.decode(data)
Receive ==
    /\ msg = Listening
    /\ ret.op = "none"
    /\ \E data \in Datagrams :
        LET r == Message_decode(data, None) IN
            /\ ret' = Call("receive", data, r.err, None)
            /\ peer' = IF r.err = "" THEN Some(r.val) ELSE None
    /\ UNCHANGED <<msg, pre, hist>>

NextCodec ==
    \/ Encode
    \/ Decode
    \/ Receive

CodecSpec == InitCodec /\ [][NextCodec]_vars

-----------------------------------------------------------------------------
(* Claims about the codec (checked under CodecSpec) *)

\* Two option objects are the same: same value class, number and value.
SameOption(a, b) ==
    /\ a.kind = b.kind
    /\ a.number = b.number
    /\ a.value = b.value

\* Two containers hold, at every number, the same ordered list of values.
SameOptions(a, b) ==
    /\ DOMAIN a = DOMAIN b
    /\ \A n \in DOMAIN a :
         /\ Len(a[n]) = Len(b[n])
         /\ \A i \in 1..Len(a[n]) : SameOption(a[n][i], b[n][i])

\* C1: decode(encode(m)) is field-for-field equal to m for a well-formed
\* m (type and message ID set, token of at most 8 bytes, options set
\* through the typed accessors, Accept, Block1 and Block2 among them):
\* version, type, code, message ID, token, payload, and per option number
\* the same ordered values of the same value type.
C1_RoundTrip ==
    ret.op = "decode" =>
        /\ ret.err = ""
        /\ peer # None
        /\ peer[1].version = pre.version
        /\ peer[1].mtype = pre.mtype
        /\ peer[1].code = pre.code
        /\ peer[1].mid = pre.mid
        /\ peer[1].token = pre.token
        /\ peer[1].payload = pre.payload
        /\ SameOptions(peer[1].opt, pre.opt)

RECURSIVE Overlong(_)
\* Walking the options of rawdata: some option's declared length (after the
\* extended-length bytes) exceeds the bytes that remain after its header.
Overlong(rawdata) ==
    IF Len(rawdata) = 0 \/ rawdata[1] = 255 THEN FALSE
    ELSE LET d == readExtendedFieldValue((rawdata[1] \div 16) % 16, SliceFrom(rawdata, 1)) IN
         IF d.err # "" THEN FALSE
         ELSE LET l == readExtendedFieldValue(rawdata[1] % 16, d.val[2]) IN
              IF l.err # "" THEN FALSE
              ELSE IF l.val[1] > Len(l.val[2]) THEN TRUE
              ELSE Overlong(SliceFrom(l.val[2], l.val[1]))

\* C9: decoding a datagram in which an option declares more value bytes
\* than remain fails with a malformed-message error and yields no Message;
\* the over-long option is never cut short and accepted.
C9_OverlongOptionFails ==
    (ret.op = "receive" /\ ret.args[1] \div 64 = 1 /\ Overlong(SliceFrom(ret.args, 4))) =>
        /\ ret.err # ""
        /\ peer = None

RECURSIVE Count255(_)
Count255(s) ==
    IF Len(s) = 0 THEN 0
    ELSE (IF s[1] = 255 THEN 1 ELSE 0) + Count255(Tail(s))

Encoded ==
    /\ ret.op = "encode"
    /\ ret.err = ""

\* The output ends with one 0xFF and then the payload bytes.
MarkerBeforePayload ==
    /\ Len(ret.val) > Len(pre.payload)
    /\ ret.val[Len(ret.val) - Len(pre.payload)] = 255
    /\ SubSeq(ret.val, Len(ret.val) - Len(pre.payload) + 1, Len(ret.val)) = pre.payload

\* C10 as stated: with an empty payload the output of encode holds no 0xFF
\* byte anywhere; with a non-empty payload it holds exactly one, right
\* before the payload bytes.
C10_NoOther255 ==
    Encoded =>
        IF Len(pre.payload) = 0 THEN Count255(ret.val) = 0
        ELSE Count255(ret.val) = 1 /\ MarkerBeforePayload

\* The bytes encode writes before any marker: 4 header bytes, the token and
\* the options.
BeforeMarker == SubSeq(ret.val, 1, 4 + Len(pre.token) + Len(Options_encode(pre.opt).val))

\* C10, amended: 0xFF may occur in the code, message ID, token, option
\* bytes and payload themselves.  What encode guarantees is the marker: the
\* output is the header, token and options, and then nothing when the
\* payload is empty, one 0xFF and the payload bytes when it is not; the
\* options never begin with 0xFF; and when header, token and options hold
\* no 0xFF and neither does the payload, the output holds none (empty
\* payload) or exactly one (non-empty payload).
C10_PayloadMarker ==
    Encoded =>
        LET head == 4 + Len(pre.token) + Len(Options_encode(pre.opt).val) IN
        /\ head > 4 + Len(pre.token) => ret.val[4 + Len(pre.token) + 1] # 255
        /\ IF Len(pre.payload) = 0 THEN Len(ret.val) = head
           ELSE Len(ret.val) = head + 1 + Len(pre.payload) /\ MarkerBeforePayload
        /\ (Count255(BeforeMarker) = 0 /\ Count255(pre.payload) = 0) =>
             Count255(ret.val) = (IF Len(pre.payload) = 0 THEN 0 ELSE 1)

C10_Witness ==
    /\ Encoded
    /\ Len(pre.payload) > 0
    /\ DOMAIN pre.opt # {}
    /\ Count255(BeforeMarker) = 0
    /\ Count255(ret.val) = 1

-----------------------------------------------------------------------------
(* The option container on its own: options are added, deleted and set     *)
(* through the properties of Options, then the container is encoded and    *)
(* the bytes are decoded into a fresh container.                           *)

\* The most option values a container holds.
MaxStored == 3

\* BlockwiseTuple._make(value) in BlockOption.__init__: value is None or
\* <<tuple>>, and None is not iterable.
BlockwiseTuple_make(value) ==
    IF value = None THEN Raise("TypeError") ELSE Ok(value[1])

\* opts.<name> = value through the property of that name.  value is None or
\* <<v>>; the outcome is the exception raised ("" for none) and the container
\* as the assignment leaves it.
Options_setattr(opts, name, value) ==
    IF name = "uri_path" THEN _setUriPath(opts, value[1])
    ELSE IF name = "uri_query" THEN _setUriQuery(opts, value[1])
    ELSE IF name = "etags" THEN [err |-> "", opt |-> _setETags(opts, value[1])]
    ELSE IF name = "block2" THEN
        LET made == BlockwiseTuple_make(value) IN
        IF made.err # "" THEN [err |-> made.err, opt |-> deleteOption(opts, BLOCK2)]
        ELSE [err |-> "", opt |-> _setBlock2(opts, made.val)]
    ELSE IF name = "block1" THEN
        LET made == BlockwiseTuple_make(value) IN
        IF made.err # "" THEN [err |-> made.err, opt |-> deleteOption(opts, BLOCK1)]
        ELSE [err |-> "", opt |-> _setBlock1(opts, made.val)]
    ELSE IF name = "content_format" THEN
        [err |-> "", opt |-> _setContentFormat(opts, IF value = None THEN None ELSE value[1])]
    ELSE IF name = "etag" THEN [err |-> "", opt |-> _setETag(opts, value)]
    ELSE IF name = "observe" THEN [err |-> "", opt |-> _setObserve(opts, value)]
    ELSE [err |-> "", opt |-> _setAccept(opts, value)]

\* value = opts.<name>: None or <<v>> for the single-valued properties,
\* <<list>> for the list-valued ones
Options_getattr(opts, name) ==
    IF name = "uri_path" THEN Some(_getUriPath(opts))
    ELSE IF name = "uri_query" THEN Some(_getUriQuery(opts))
    ELSE IF name = "etags" THEN Some(_getETags(opts))
    ELSE IF name = "block2" THEN _getBlock2(opts)
    ELSE IF name = "block1" THEN _getBlock1(opts)
    ELSE IF name = "content_format" THEN _getContentFormat(opts)
    ELSE IF name = "etag" THEN _getETag(opts)
    ELSE IF name = "observe" THEN _getObserve(opts)
    ELSE _getAccept(opts)

\* The option number behind each single-valued property
NumberOf(name) ==
    IF name = "block2" THEN BLOCK2
    ELSE IF name = "block1" THEN BLOCK1
    ELSE IF name = "content_format" THEN CONTENT_FORMAT
    ELSE IF name = "etag" THEN ETAG
    ELSE IF name = "observe" THEN OBSERVE
    ELSE ACCEPT

RECURSIVE Stored(_, _)
\* How many option values the container holds at the numbers of keys
Stored(opts, keys) ==
    IF keys = {} THEN 0
    ELSE LET n == CHOOSE x \in keys : TRUE
         IN  Len(opts[n]) + Stored(opts, keys \ {n})

\* An opaque value of len zero bytes
Zeros(len) == [i \in 1..len |-> 0]

\* Options handed to addOption directly: a second Uri-Path and a second
\* ETag, a wide Content-Format, and an option far up the number space whose
\* delta and length both need extension bytes.
AddedOptions ==
    <<StringOption(URI_PATH, <<122>>), StringOption(ETAG, <<98>>),
      UintOption(CONTENT_FORMAT, 65536), StringOption(300, Zeros(13)),
      StringOption(35, <<97>>)>>

\* Present values assigned through the properties: <<name, <<value>>>>
Assignments ==
    <<<<"uri_path", Some(List(<<Str(<<97>>)>>))>>,
      <<"uri_path", Some(List(<<Str(<<97>>), Str(<<98, 99>>)>>))>>,
      <<"uri_path", Some(List(<<Num(20)>>))>>,
      <<"uri_path", Some(Str(<<97, 98>>))>>,
      <<"uri_query", Some(List(<<Str(<<113>>)>>))>>,
      <<"uri_query", Some(Str(<<113>>))>>,
      <<"etags", Some(List(<< <<97>>, <<98>> >>))>>,
      <<"etags", Some(Str(<<97, 98>>))>>,
      <<"etag", Some(<<97>>)>>,
      <<"observe", Some(0)>>,
      <<"accept", Some(50)>>,
      <<"content_format", Some(0)>>,
      <<"content_format", Some(50)>>,
      <<"content_format", Some(256)>>,
      <<"block1", Some(BlockwiseTuple(0, FALSE, 0))>>,
      <<"block1", Some(BlockwiseTuple(1, TRUE, 2))>>,
      <<"block2", Some(BlockwiseTuple(0, FALSE, 0))>>,
      <<"block2", Some(BlockwiseTuple(0, TRUE, 0))>>,
      <<"block2", Some(BlockwiseTuple(0, FALSE, 7))>>,
      <<"block2", Some(BlockwiseTuple(1, FALSE, 0))>>,
      <<"block2", Some(BlockwiseTuple(15, TRUE, 7))>>,
      <<"block2", Some(BlockwiseTuple(16, FALSE, 0))>>,
      <<"block2", Some(BlockwiseTuple(4096, TRUE, 2))>>>>

InitOptions ==
    /\ msg = Message(Some(CON), Some(1), GET, Some(<<>>), <<>>).val
    /\ peer = None
    /\ ret = NoCall
    /\ pre = msg
    /\ hist = <<msg>>

\* msg.opt.addOption(option)
AddOption ==
    \E i \in 1..Len(AddedOptions) :
        /\ ret.op = "none"
        /\ Stored(msg.opt, DOMAIN msg.opt) < MaxStored
        /\ msg' = [msg EXCEPT !.opt = addOption(@, AddedOptions[i])]
        /\ pre' = msg
        /\ UNCHANGED <<peer, ret, hist>>

\* msg.opt.deleteOption(number)
DeleteOption ==
    \E number \in {URI_PATH, ETAG, BLOCK2, 300} :
        /\ ret.op = "none"
        /\ msg' = [msg EXCEPT !.opt = deleteOption(@, number)]
        /\ pre' = msg
        /\ UNCHANGED <<peer, ret, hist>>

\* msg.opt.<name> = value
AssignOption ==
    \E i \in 1..Len(Assignments) :
        LET r == Options_setattr(msg.opt, Assignments[i][1], Assignments[i][2]) IN
        /\ ret.op = "none"
        /\ Stored(r.opt, DOMAIN r.opt) <= MaxStored
        /\ msg' = [msg EXCEPT !.opt = r.opt]
        /\ pre' = msg
        /\ UNCHANGED <<peer, ret, hist>>

\* rawdata = msg.opt.encode()
EncodeOptions ==
    /\ ret.op = "none"
    /\ LET r == Options_encode(msg.opt) IN
        ret' = Call("Options.encode", <<>>, r.err, r.val)
    /\ pre' = msg
    /\ UNCHANGED <<msg, peer, hist>>

\* fresh = Options(); fresh.decode(rawdata): peer is a message holding fresh
DecodeOptions ==
    /\ ret.op = "Options.encode"
    /\ ret.err = ""
    /\ LET r == Options_decode(Options, ret.val) IN
        /\ ret' = Call("Options.decode", ret.val, r.err, r.val)
        /\ peer' = Some([Listening EXCEPT !.opt = r.opt])
    /\ UNCHANGED <<msg, pre, hist>>

NextOptions ==
    \/ AddOption
    \/ DeleteOption
    \/ AssignOption
    \/ EncodeOptions
    \/ DecodeOptions

OptionsSpec == InitOptions /\ [][NextOptions]_vars

-----------------------------------------------------------------------------
(* Claims about the option container (checked under OptionsSpec) *)

\* The option numbers of a list of option objects
Numbers(option_list) == [i \in 1..Len(option_list) |-> option_list[i].number]

RECURSIVE Select(_, _)
\* The options of a list that carry the number n, in the order of the list
Select(option_list, n) ==
    IF Len(option_list) = 0 THEN <<>>
    ELSE (IF option_list[1].number = n THEN <<option_list[1]>> ELSE <<>>)
         \o Select(Tail(option_list), n)

\* The list is in non-decreasing number order, so every delta is >= 0, and
\* holds at each number the container's values in insertion order.
EmittedInOrder(opts, option_list) ==
    /\ \A i \in 1..Len(option_list) :
         option_list[i].number - (IF i = 1 THEN 0 ELSE option_list[i - 1].number) >= 0
    /\ \A n \in DOMAIN opts : Select(option_list, n) = opts[n]
    /\ \A i \in 1..Len(option_list) : option_list[i].number \in DOMAIN opts

\* C11: after any sequence of addOption, deleteOption and property
\* assignments, Options.encode emits the stored options in non-decreasing
\* number order, values of one number in insertion order (every delta >= 0),
\* and Options.decode of the output gives back the same grouping: at every
\* number the same ordered values.
C11_SortedAndDecodable ==
    /\ ret.op = "Options.encode" =>
         /\ ret.err = ""
         /\ EmittedInOrder(pre.opt, optionList(pre.opt))
         /\ ret.val = EncodeOptionList(optionList(pre.opt), 0).val
    /\ ret.op = "Options.decode" =>
         /\ ret.err = ""
         /\ SameOptions(peer[1].opt, pre.opt)

RECURSIVE Walk(_, _)
\* Reading rawdata as the option headers declare it: for each option its
\* number, the length its header declares (nibble plus extension) and the
\* bytes that follow the header up to that length.
Walk(rawdata, number) ==
    IF Len(rawdata) = 0 \/ rawdata[1] = 255 THEN <<>>
    ELSE LET d == readExtendedFieldValue((rawdata[1] \div 16) % 16, SliceFrom(rawdata, 1)) IN
         IF d.err # "" THEN <<>>
         ELSE LET l == readExtendedFieldValue(rawdata[1] % 16, d.val[2]) IN
              IF l.err # "" THEN <<>>
              ELSE <<<<number + d.val[1], l.val[1], Slice(l.val[2], 0, l.val[1])>>>>
                   \o Walk(SliceFrom(l.val[2], Min(l.val[1], Len(l.val[2]))),
                           number + d.val[1])

\* For each option of the list: its number, the number of value bytes
\* encode emits for it, and those bytes.
Emitted(option_list) ==
    [i \in 1..Len(option_list) |->
        <<option_list[i].number, Len(OptionEncode(option_list[i]).val),
          OptionEncode(option_list[i]).val>>]

\* C13: for every option value Options.encode emits (string, unsigned
\* integer, block descriptor, (0,false,0) included) the length written in
\* the option header equals the number of value bytes emitted, so that
\* reading the output header by header finds each option, and whatever
\* follows it, exactly where the declared length ends.
C13_DeclaredLengthIsEmittedLength ==
    ret.op = "Options.encode" =>
        /\ ret.err = ""
        /\ \A i \in 1..Len(optionList(pre.opt)) :
             OptionLength(optionList(pre.opt)[i])
                 = Len(OptionEncode(optionList(pre.opt)[i]).val)
        /\ Walk(ret.val, 0) = Emitted(optionList(pre.opt))

-----------------------------------------------------------------------------
(* The single-valued properties of Options: values, None among them, are   *)
(* assigned and read back; addOption puts further values under a number.   *)

\* The most option values the container holds in this exchange.
MaxHeld == 3

\* Options handed to addOption directly, one for each single-valued number
HeldOptions ==
    <<StringOption(ETAG, <<98>>), UintOption(OBSERVE, 1), UintOption(ACCEPT, 0),
      UintOption(CONTENT_FORMAT, 40), BlockOption(BLOCK1, BlockwiseTuple(1, TRUE, 0)),
      BlockOption(BLOCK2, BlockwiseTuple(2, FALSE, 1))>>

\* What is assigned: <<name, None>> or <<name, <<value>>>>
AccessorAssignments ==
    <<<<"content_format", None>>, <<"content_format", Some(50)>>,
      <<"observe", None>>, <<"observe", Some(0)>>,
      <<"accept", None>>, <<"accept", Some(50)>>,
      <<"etag", None>>, <<"etag", Some(<<97>>)>>,
      <<"block1", None>>, <<"block1", Some(BlockwiseTuple(0, TRUE, 2))>>,
      <<"block2", None>>, <<"block2", Some(BlockwiseTuple(3, FALSE, 0))>>>>

SingleValued == {"content_format", "observe", "accept", "etag", "block1", "block2"}

InitAccessors ==
    /\ msg = Message(Some(CON), Some(1), GET, Some(<<>>), <<>>).val
    /\ peer = None
    /\ ret = NoCall
    /\ pre = msg
    /\ hist = <<msg>>

\* msg.opt.addOption(option)
HoldOption ==
    \E i \in 1..Len(HeldOptions) :
        /\ Stored(msg.opt, DOMAIN msg.opt) < MaxHeld
        /\ msg' = [msg EXCEPT !.opt = addOption(@, HeldOptions[i])]
        /\ ret' = NoCall
        /\ pre' = msg
        /\ UNCHANGED <<peer, hist>>

\* msg.opt.<name> = value
AssignAccessor ==
    \E i \in 1..Len(AccessorAssignments) :
        LET name == AccessorAssignments[i][1]
            value == AccessorAssignments[i][2]
            r == Options_setattr(msg.opt, name, value)
        IN  /\ Stored(r.opt, DOMAIN r.opt) <= MaxHeld
            /\ msg' = [msg EXCEPT !.opt = r.opt]
            /\ ret' = Call("set", <<name, value>>, r.err, None)
            /\ pre' = msg
            /\ UNCHANGED <<peer, hist>>

\* value = msg.opt.<name>
ReadAccessor ==
    \E name \in SingleValued :
        /\ ret' = Call("get", <<name>>, "", Options_getattr(msg.opt, name))
        /\ pre' = msg
        /\ UNCHANGED <<msg, peer, hist>>

NextAccessors ==
    \/ HoldOption
    \/ AssignAccessor
    \/ ReadAccessor

AccessorSpec == InitAccessors /\ [][NextAccessors]_vars

-----------------------------------------------------------------------------
(* Claims about the single-valued properties (checked under AccessorSpec) *)

\* C12: assigning a present value to a single-valued property
\* (Content-Format, Observe, Accept, Block1, Block2, ETag) leaves exactly
\* that one value stored at its number; assigning None raises nothing and
\* leaves no value stored at that number; reading returns the first stored
\* value, or None when none is stored.
C12_SingleValuedAccessors ==
    /\ ret.op = "set" =>
         LET n == NumberOf(ret.args[1]) IN
         /\ ret.err = ""
         /\ ret.args[2] # None =>
              /\ n \in DOMAIN msg.opt
              /\ Len(msg.opt[n]) = 1
              /\ msg.opt[n][1].value = ret.args[2][1]
         /\ ret.args[2] = None => getOption(msg.opt, n) = None
    /\ ret.op = "get" =>
         LET n == NumberOf(ret.args[1]) IN
         IF n \notin DOMAIN pre.opt \/ HoldsNone(pre.opt[n][1]) THEN ret.val = None
         ELSE ret.val = Some(pre.opt[n][1].value)

-----------------------------------------------------------------------------
(* Failed appends (checked under Spec) *)

RECURSIVE Payloads(_)
\* The payloads of a sequence of messages, concatenated
Payloads(blocks) ==
    IF Len(blocks) = 0 THEN <<>> ELSE blocks[1].payload \o Payloads(Tail(blocks))

\* The last call was an append, and it raised.
AppendFailed ==
    /\ ret.op \in {"appendRequestBlock", "appendResponseBlock"}
    /\ ret.err # ""

\* C14: when appendRequestBlock or appendResponseBlock fails (wrong kind of
\* message, offset not contiguous, ETag mismatch) the accumulator is as it
\* was before the call: payload, Block1/Block2, token, message ID and
\* response-type hint; so after any interleaving of failed and successful
\* appends the payload is what the accumulator started with followed by the
\* payloads of the blocks appended successfully, and of no other.
C14_FailedAppendChangesNothing ==
    /\ AppendFailed =>
         /\ msg.payload = pre.payload
         /\ _getBlock1(msg.opt) = _getBlock1(pre.opt)
         /\ _getBlock2(msg.opt) = _getBlock2(pre.opt)
         /\ msg.token = pre.token
         /\ msg.mid = pre.mid
         /\ msg.response_type = pre.response_type
         /\ msg = pre
    /\ msg.payload = Payloads(hist)

\* An ETag mismatch at a contiguous offset, after a block was appended
C14_Witness ==
    /\ AppendFailed
    /\ AppendedResponse
    /\ Len(hist) >= 2
    /\ Offset(_getBlock2(peer[1].opt)[1]) = Len(pre.payload)
    /\ _getETag(peer[1].opt) # _getETag(pre.opt)
    /\ Len(peer[1].payload) > 0
    /\ msg.payload = Payloads(hist)

-----------------------------------------------------------------------------
(* Split, then reassemble: hist[1] is the message that is split, msg the    *)
(* accumulator (from block 0 on), hist[2..] the blocks the accumulator      *)
(* holds, peer the block extracted and about to be appended.                *)

\* The largest size exponent a message is split with.
MaxSplitExp == 7

\* The largest block number asked of extractBlock when reassembling.
MaxSplitNumber == 3

\* Payload lengths: one byte, and lengths that give two or three blocks, the
\* last one partial, at one exponent at least of every 0..7.
SplitLengths == {1, 40, 100, 300, 1100, 4100}

\* The messages that are split: requests, and responses with or without ETag
Originals ==
    {Build(7, <<9>>, code, Bytes(n, 0), None, etag) :
        code \in {PUT, CONTENT}, n \in SplitLengths, etag \in {None, Some(<<97>>)}}

\* The descriptor a block of this exchange carries: Block1 of a request,
\* Block2 of a response
Descriptor(m) == IF isRequest(m.code) THEN _getBlock1(m.opt) ELSE _getBlock2(m.opt)

InitSplit ==
    /\ msg \in Originals
    /\ peer = None
    /\ ret = NoCall
    /\ pre = msg
    /\ hist = <<msg>>

\* accumulator = original.extractBlock(0, e)
StartSplit ==
    \E e \in 0..MaxSplitExp :
        /\ Len(hist) = 1
        /\ LET r == extractBlock(msg, 0, e) IN
            /\ r # None
            /\ msg' = r[1]
            /\ hist' = <<msg, r[1]>>
            /\ ret' = Call("extractBlock", <<0, e>>, "", None)
        /\ pre' = msg
        /\ UNCHANGED peer

\* block = original.extractBlock(k, e), for the next k or any other
ExtractNext ==
    \E k \in 0..MaxSplitNumber :
        /\ Len(hist) >= 2
        /\ peer = None
        /\ LET r == extractBlock(hist[1], k, Descriptor(msg)[1].size_exponent) IN
            /\ r # None
            /\ peer' = r
            /\ ret' = Call("extractBlock", <<k, Descriptor(msg)[1].size_exponent>>, "", None)
        /\ pre' = msg
        /\ UNCHANGED <<msg, hist>>

\* accumulator.appendRequestBlock(block)
AppendExtractedRequest ==
    /\ peer # None
    /\ isRequest(msg.code)
    /\ LET r == appendRequestBlock(msg, peer[1]) IN
        /\ msg' = r.self
        /\ ret' = Call("appendRequestBlock", <<Descriptor(peer[1])[1].block_number>>, r.err, None)
        /\ hist' = IF r.err = "" THEN Append(hist, peer[1]) ELSE hist
    /\ pre' = msg
    /\ peer' = None

\* accumulator.appendResponseBlock(block)
AppendExtractedResponse ==
    /\ peer # None
    /\ isResponse(msg.code)
    /\ LET r == appendResponseBlock(msg, peer[1]) IN
        /\ msg' = r.self
        /\ ret' = Call("appendResponseBlock", <<Descriptor(peer[1])[1].block_number>>, r.err, None)
        /\ hist' = IF r.err = "" THEN Append(hist, peer[1]) ELSE hist
    /\ pre' = msg
    /\ peer' = None

NextSplit ==
    \/ StartSplit
    \/ ExtractNext
    \/ AppendExtractedRequest
    \/ AppendExtractedResponse

SplitSpec == InitSplit /\ [][NextSplit]_vars

-----------------------------------------------------------------------------
(* Claims about splitting and reassembling (checked under SplitSpec) *)

\* The last call appended, or refused, an extracted block.
AppendedExtracted == ret.op \in {"appendRequestBlock", "appendResponseBlock"}

\* How many blocks the accumulator held when the last append was called
HeldBefore == IF ret.err = "" THEN Len(hist) - 2 ELSE Len(hist) - 1

\* Every block of the original is in the accumulator: extractBlock returns
\* None for the next number.
AllAppended ==
    /\ Len(hist) >= 2
    /\ extractBlock(hist[1], Len(hist) - 1, Descriptor(msg)[1].size_exponent) = None

\* C15: with extractBlock(0, e) of a request or response with a non-empty
\* payload as the accumulator, appending extractBlock(1, e),
\* extractBlock(2, e), ... in increasing order succeeds every time, and
\* when extractBlock has no further block the accumulator's payload is the
\* original payload and its descriptor (last block number, false, e);
\* appending a block out of this order, the block just appended among them,
\* fails.
C15_SplitThenReassemble ==
    /\ AppendedExtracted => (ret.err = "" <=> ret.args[1] = HeldBefore)
    /\ AllAppended =>
         /\ msg.payload = hist[1].payload
         /\ Descriptor(msg) = Some(BlockwiseTuple(Len(hist) - 2, FALSE,
                                                  Descriptor(hist[2])[1].size_exponent))

\* Three blocks reassembled, the last one appended just now
C15_Witness ==
    /\ AllAppended
    /\ Len(hist) = 4
    /\ AppendedExtracted
    /\ ret.err = ""
    /\ ret.args[1] = 2
    /\ msg.payload = hist[1].payload

-----------------------------------------------------------------------------
(* A blockwise download: hist[1] is the request the client last sent, msg   *)
(* the response it accumulates (the first block, then what is appended),    *)
(* hist[2..] the response blocks accumulated, peer the block just received. *)

\* The largest size exponent of the server's first block.
MaxExchangeExp == 7

\* The most response blocks the client accumulates.
MaxExchangeBlocks == 3

\* A response block of the server: descriptor b, a payload that fills the
\* block (or, on a last block, 8 bytes), the ETag of the resource.
ResponseBlock(b, full, etag) ==
    Build(2, <<1>>, CONTENT,
          Bytes(IF full THEN 2 ^ (b.size_exponent + 4) ELSE 8, b.block_number),
          Some(b), etag)

\* The client's request, as the example clients build it
InitExchange ==
    /\ msg = [Build(1, <<1>>, GET, <<>>, None, None)
                EXCEPT !.opt = _setUriPath(@, List(<<Str(<<49, 97>>)>>)).opt]
    /\ peer = None
    /\ ret = NoCall
    /\ pre = msg
    /\ hist = <<msg>>

\* The first response block arrives, in the size the server chose, and
\* becomes the accumulator.
ReceiveFirst ==
    \E e \in 0..MaxExchangeExp, etag \in {None, Some(<<97>>)} :
        /\ Len(hist) = 1
        /\ msg' = ResponseBlock(BlockwiseTuple(0, TRUE, e), TRUE, etag)
        /\ hist' = <<hist[1], msg'>>
        /\ ret' = NoCall
        /\ pre' = msg
        /\ UNCHANGED peer

\* request = request.generateNextBlock2Request(response), after a block
\* with the more flag set; the client sends it.
GenerateNext ==
    /\ Len(hist) >= 2
    /\ Len(hist) <= MaxExchangeBlocks
    /\ peer = None
    /\ ret.op # "generateNextBlock2Request"
    /\ _getBlock2(hist[Len(hist)].opt)[1].more
    /\ LET r == generateNextBlock2Request(hist[1], hist[Len(hist)]) IN
        /\ ret' = Call("generateNextBlock2Request", <<>>, r.err,
                       IF r.err = "" THEN Some(r.val) ELSE None)
        /\ hist' = IF r.err = "" THEN [hist EXCEPT ![1] = r.val] ELSE hist
    /\ pre' = msg
    /\ UNCHANGED <<msg, peer>>

\* The next response block arrives: the block the request asks for, or (a
\* server that keeps its own size) the block after the last one, or (a
\* server that takes the number and keeps its size) the asked number in the
\* last block's size.
ReceiveNext ==
    \E answer \in {"asked", "next", "number"}, more \in BOOLEAN, full \in BOOLEAN :
        /\ ret.op = "generateNextBlock2Request"
        /\ ret.err = ""
        /\ peer = None
        /\ more => full
        /\ LET asked == _getBlock2(hist[1].opt)[1]
               last == _getBlock2(hist[Len(hist)].opt)[1]
               b == IF answer = "asked"
                    THEN BlockwiseTuple(asked.block_number, more, asked.size_exponent)
                    ELSE IF answer = "next"
                    THEN BlockwiseTuple(last.block_number + 1, more, last.size_exponent)
                    ELSE BlockwiseTuple(asked.block_number, more, last.size_exponent)
           IN  peer' = Some(ResponseBlock(b, full, _getETag(msg.opt)))
        /\ UNCHANGED <<msg, ret, pre, hist>>

\* accumulator.appendResponseBlock(block)
AppendReceived ==
    /\ peer # None
    /\ ret.op = "generateNextBlock2Request"
    /\ LET r == appendResponseBlock(msg, peer[1]) IN
        /\ msg' = r.self
        /\ ret' = Call("appendResponseBlock", <<>>, r.err, None)
        /\ hist' = IF r.err = "" THEN Append(hist, peer[1]) ELSE hist
    /\ pre' = msg
    /\ UNCHANGED peer

\* The client is done with the block.
ReleaseReceived ==
    /\ peer # None
    /\ ret.op = "appendResponseBlock"
    /\ peer' = None
    /\ ret' = NoCall
    /\ pre' = msg
    /\ UNCHANGED <<msg, hist>>

NextExchange ==
    \/ ReceiveFirst
    \/ GenerateNext
    \/ ReceiveNext
    \/ AppendReceived
    \/ ReleaseReceived

ExchangeSpec == InitExchange /\ [][NextExchange]_vars

-----------------------------------------------------------------------------
(* Claims about the download (checked under ExchangeSpec) *)

\* The request was just generated from the last accumulated block.
GeneratedNext ==
    /\ ret.op = "generateNextBlock2Request"
    /\ peer = None

\* The block just offered to appendResponseBlock carries the number and
\* size exponent the request asked for.
AnswersRequest ==
    /\ ret.op = "appendResponseBlock"
    /\ _getBlock2(peer[1].opt)[1].block_number = _getBlock2(hist[1].opt)[1].block_number
    /\ _getBlock2(peer[1].opt)[1].size_exponent = _getBlock2(hist[1].opt)[1].size_exponent

\* C16: renegotiation keeps the byte offset.  After a first response block
\* (0, _, e) with e > 2 the generated Block2 is (n', false, 2) with
\* n' * 2^(2+4) = 2^(e+4), the offset right after the first block, so that
\* a response block with that descriptor passes appendResponseBlock against
\* the accumulator holding the first block's 2^(e+4) bytes; in the other
\* branch the generated (n+1, false, e) stands for the offset
\* (n+1) * 2^(e+4), the accumulated length after n+1 full blocks.
C16_RenegotiationKeepsOffset ==
    /\ GeneratedNext =>
         LET last == _getBlock2(hist[Len(hist)].opt)[1]
             asked == _getBlock2(ret.val[1].opt)[1]
         IN  /\ ret.err = ""
             /\ ~asked.more
             /\ IF last.block_number = 0 /\ last.size_exponent > 2
                THEN /\ asked.size_exponent = 2
                     /\ asked.block_number * (2 ^ (2 + 4)) = 2 ^ (last.size_exponent + 4)
                     /\ Len(msg.payload) = 2 ^ (last.size_exponent + 4)
                ELSE /\ asked.size_exponent = last.size_exponent
                     /\ asked.block_number = last.block_number + 1
                     /\ (last.block_number + 1) * (2 ^ (last.size_exponent + 4))
                            = Len(msg.payload)
             /\ Offset(asked) = Len(msg.payload)
    /\ AnswersRequest => ret.err = ""

\* A 512-byte first block (exponent 5), then block 8 of 64 bytes appended
C16_Witness ==
    /\ AnswersRequest
    /\ ret.err = ""
    /\ _getBlock2(hist[2].opt) = Some(BlockwiseTuple(0, TRUE, 5))
    /\ _getBlock2(peer[1].opt)[1].block_number = 8
    /\ _getBlock2(peer[1].opt)[1].size_exponent = 2
    /\ Len(pre.payload) = 512
    /\ Len(msg.payload) = 576

====
